---- MODULE Spec2Model ----
(***************************************************************************)
(* simpar: deterministic SIR simulation of a heterogeneous population      *)
(* (meta-groups split into contact-level groups) under a response          *)
(* strategy.  Counts are real-valued in the program; here they are exact   *)
(* rationals <<numerator, denominator>> in lowest terms, so equality of    *)
(* two counts is equality of the pairs.                                    *)
(***************************************************************************)
EXTENDS Integers, Sequences, FiniteSets, TLC

(* ------------------------------------------------------------------ *)
(* Bounds of the model                                                 *)
(* ------------------------------------------------------------------ *)
\* largest truncation point of a Pareto contact distribution that is drawn
MaxUb == 2
\* largest Pareto shape parameter that is drawn
MaxShape == 2
\* longest strategy period that is drawn, in generations
MaxPeriodLen == 2

(* ------------------------------------------------------------------ *)
(* Exact rational arithmetic                                           *)
(* ------------------------------------------------------------------ *)
Abs(x) == IF x < 0 THEN -x ELSE x

RECURSIVE GCD(_, _)
GCD(x, y) == IF y = 0 THEN x ELSE GCD(y, x % y)

LCM(x, y) == (x \div GCD(x, y)) * y

\* the rational n/d (d > 0) in lowest terms
Rat(n, d) == LET g == GCD(Abs(n), d) IN <<n \div g, d \div g>>

Zero == Rat(0, 1)
One == Rat(1, 1)
Half == Rat(1, 2)
Int2Rat(n) == Rat(n, 1)

RAdd(x, y) ==
    LET l == LCM(x[2], y[2])
    IN  Rat(x[1] * (l \div x[2]) + y[1] * (l \div y[2]), l)

RNeg(x) == <<-x[1], x[2]>>

RSub(x, y) == RAdd(x, RNeg(y))

RMul(x, y) ==
    LET g1 == GCD(Abs(x[1]), y[2])
        g2 == GCD(Abs(y[1]), x[2])
    IN  Rat((x[1] \div g1) * (y[1] \div g2), (x[2] \div g2) * (y[2] \div g1))

\* x / y for y > 0
RDiv(x, y) == RMul(x, <<y[2], y[1]>>)

RLe(x, y) ==
    LET l == LCM(x[2], y[2])
    IN  x[1] * (l \div x[2]) <= y[1] * (l \div y[2])

RLt(x, y) == RLe(x, y) /\ x # y

RMin(x, y) == IF RLe(x, y) THEN x ELSE y

RECURSIVE RSum(_)
RSum(s) == IF s = <<>> THEN Zero ELSE RAdd(Head(s), RSum(Tail(s)))

RECURSIVE Pow(_, _)
Pow(b, e) == IF e = 0 THEN 1 ELSE b * Pow(b, e - 1)

\* the sequence f with every element computed
RECURSIVE Take(_, _)
Take(f, n) == IF n = 0 THEN <<>> ELSE Append(Take(f, n - 1), f[n])

Eval(f) == Take(f, Len(f))

RECURSIVE Flatten(_)
Flatten(ss) == IF ss = <<>> THEN <<>> ELSE Head(ss) \o Flatten(Tail(ss))

(* ------------------------------------------------------------------ *)
(* groups module: MetaGroup and Population                             *)
(* ------------------------------------------------------------------ *)

\* Truncated Pareto contact distribution: the fraction of the meta-group
\* with i contacts (i = 1..ub) is the Pareto density shape / i^(shape+1),
\* and the values are normalized to sum to 1.
pareto_pdf(i, shape) == Rat(shape, Pow(i, shape + 1))

\* variant: the densities are used as they are
truncated_pareto_fracs_Raw(shape, ub) ==
    Eval([i \in 1..ub |-> pareto_pdf(i, shape)])

truncated_pareto_fracs(shape, ub) ==
    LET w == Eval([i \in 1..ub |-> pareto_pdf(i, shape)])
        tot == RSum(w)
    IN  Eval([i \in 1..ub |-> RDiv(w[i], tot)])

\* A meta-group description is either explicit (paired contact-level and
\* fraction vectors) or Pareto (shape, ub); either way the MetaGroup holds
\* contact_units and pop_fracs.
MetaGroup_contact_units(m) ==
    IF m.kind = "pareto" THEN Eval([i \in 1..m.ub |-> i]) ELSE m.contact_units

MetaGroup_pop_fracs(m) ==
    IF m.kind = "pareto" THEN truncated_pareto_fracs(m.shape, m.ub)
    ELSE m.pop_fracs

\* variant: the sum of the fractions is not checked
MetaGroupValid_NoSum(m) ==
    Len(MetaGroup_contact_units(m)) = Len(MetaGroup_pop_fracs(m))

\* a MetaGroup is accepted when its vectors pair up and its fractions sum to 1
MetaGroupValid(m) ==
    /\ Len(MetaGroup_contact_units(m)) = Len(MetaGroup_pop_fracs(m))
    /\ RSum(MetaGroup_pop_fracs(m)) = One

\* the contact matrix is square with one row and one column per meta-group
ContactMatrixValid(metas, matrix) ==
    /\ Len(matrix) = Len(metas)
    /\ \A i \in 1..Len(matrix) : Len(matrix[i]) = Len(metas)

PopulationValid(p) ==
    /\ ContactMatrixValid(p.meta_groups, p.meta_group_contact_matrix)
    /\ \A i \in 1..Len(p.meta_groups) : MetaGroupValid(p.meta_groups[i])

\* the groups of meta-group number mi: one per contact level
MetaGroupGroups(m, mi) ==
    LET cu == MetaGroup_contact_units(m)
        pf == MetaGroup_pop_fracs(m)
    IN  Eval([i \in 1..Len(cu) |->
            [meta |-> mi, contact |-> cu[i], frac |-> pf[i],
             size |-> RMul(Int2Rat(m.pop), pf[i])]])

\* the flattened group list, in meta-group order
FlattenGroups(metas) ==
    Flatten(Eval([mi \in 1..Len(metas) |-> MetaGroupGroups(metas[mi], mi)]))


\* Interaction matrix: A[p][q] is the number of infections in group q caused
\* by one infection in group p: the product of the two contact levels, the
\* meta-group contact-matrix entry [meta of p, meta of q], the
\* infections-per-contact-unit of the destination meta-group and the
\* destination group's population fraction (well-mixing).
infection_matrix(gs, matrix, ipc) ==
    Eval([p \in 1..Len(gs) |-> Eval([q \in 1..Len(gs) |->
        RMul(RMul(RMul(Int2Rat(gs[p].contact * gs[q].contact),
                       matrix[gs[p].meta][gs[q].meta]),
                  ipc[gs[q].meta]),
             gs[q].frac)])])

\* Outside-infection vector: the meta-group's outside rate scaled by the
\* group's size share within its meta-group.
outside_rate_vector(gs, rate) ==
    Eval([q \in 1..Len(gs) |-> RMul(rate[gs[q].meta], gs[q].frac)])

\* a meta-group-level vector applied at group granularity
ToGroups(gs, v) == Eval([q \in 1..Len(gs) |-> v[gs[q].meta]])

(* ------------------------------------------------------------------ *)
(* strategy module: tests and regimes                                  *)
(* ------------------------------------------------------------------ *)
\* generation time in days
generation_time == 4

\* the tests a regime may name, with the sensitivity and compliance that are
\* drawn for them; "none" stands for no test
Tests ==
    [pcr     |-> [sensitivity |-> One,  compliance |-> One],
     antigen |-> [sensitivity |-> One,  compliance |-> Half],
     none    |-> [sensitivity |-> Zero, compliance |-> Zero]]

\* probability that one offered test discovers a positive individual
TestYield(test) == RMul(Tests[test].sensitivity, Tests[test].compliance)

\* Per-generation surveillance discovery probability of a meta-group tested
\* f times per week: the weekly rate f * sensitivity * compliance converted to
\* one generation, capped at 1.
SurveillanceProb(f, test) ==
    RMin(One, RMul(RMul(Int2Rat(f), TestYield(test)), Rat(generation_time, 7)))

\* infection discovery fraction of a meta-group: surveillance blended with
\* the no-surveillance (self-report) rate b
InfectionDiscovery(f, test, b) ==
    LET p == SurveillanceProb(f, test)
    IN  RAdd(p, RMul(RSub(One, p), b))

\* recovered discovery fraction of a meta-group: surveillance only
RecoveredDiscovery(f, test) == SurveillanceProb(f, test)

infection_discovery_frac(gs, regime, nosurv) ==
    ToGroups(gs, Eval([m \in 1..Len(regime.test_type) |->
        InfectionDiscovery(regime.tests_per_week[m], regime.test_type[m], nosurv[m])]))

recovered_discovery_frac(gs, regime) ==
    ToGroups(gs, Eval([m \in 1..Len(regime.test_type) |->
        RecoveredDiscovery(regime.tests_per_week[m], regime.test_type[m])]))

\* Arrival testing: fraction discovered by the pre-departure test plus the
\* fraction that passes it and is discovered by the arrival test.
pct_discovered(pre, arr) ==
    LET p1 == TestYield(pre)
    IN  RAdd(p1, RMul(RSub(One, p1), TestYield(arr)))

(* ------------------------------------------------------------------ *)
(* Arrival initializer: Population.get_init_SIR_and_DH                 *)
(* ------------------------------------------------------------------ *)
\* Generation-0 values of one group.  Meta-group totals are spread over the
\* meta-group's groups by population fraction.  Those discovered in
\* pre-departure or arrival testing start discovered and recovered; the
\* undiscovered infected stay infected and hidden, the hidden recovered that
\* were not discovered stay hidden.
\* variant: every group is given the whole meta-group total, not its share
InitGroup_Whole(g, inf, rec, pct, prd) ==
    LET gi  == inf
        gr  == rec
        di  == RMul(pct, gi)
        hr  == RMul(RSub(One, prd), gr)
        dr  == RAdd(RMul(prd, gr), RMul(pct, hr))
        i0  == RSub(gi, di)
        r0  == RAdd(gr, di)
    IN  [S |-> RSub(RSub(g.size, i0), r0),
         I |-> i0,
         R |-> r0,
         D |-> RAdd(di, dr),
         H |-> RSub(RAdd(gi, gr), RAdd(di, dr))]

\* variant: only the undiscovered infected are hidden, the hidden recovered
\* are left out of H
InitGroup_HInfected(g, inf, rec, pct, prd) ==
    LET gi  == RMul(inf, g.frac)
        gr  == RMul(rec, g.frac)
        di  == RMul(pct, gi)
        hr  == RMul(RSub(One, prd), gr)
        dr  == RAdd(RMul(prd, gr), RMul(pct, hr))
        i0  == RSub(gi, di)
        r0  == RAdd(gr, di)
    IN  [S |-> RSub(RSub(g.size, i0), r0),
         I |-> i0,
         R |-> r0,
         D |-> RAdd(di, dr),
         H |-> i0]

InitGroup(g, inf, rec, pct, prd) ==
    LET gi  == RMul(inf, g.frac)
        gr  == RMul(rec, g.frac)
        di  == RMul(pct, gi)
        hr  == RMul(RSub(One, prd), gr)
        dr  == RAdd(RMul(prd, gr), RMul(pct, hr))
        i0  == RSub(gi, di)
        r0  == RAdd(gr, di)
    IN  [S |-> RSub(RSub(g.size, i0), r0),
         I |-> i0,
         R |-> r0,
         D |-> RAdd(di, dr),
         H |-> RSub(RAdd(gi, gr), RAdd(di, dr))]

get_init_SIR_and_DH(gs, inf, rec, arrival, prd) ==
    LET row == Eval([q \in 1..Len(gs) |->
                  InitGroup(gs[q], Int2Rat(inf[gs[q].meta]), Int2Rat(rec[gs[q].meta]),
                            pct_discovered(arrival.pre_departure_test_type[gs[q].meta],
                                           arrival.arrival_test_type[gs[q].meta]),
                            prd[gs[q].meta])])
    IN  [S |-> Eval([q \in 1..Len(gs) |-> row[q].S]),
         I |-> Eval([q \in 1..Len(gs) |-> row[q].I]),
         R |-> Eval([q \in 1..Len(gs) |-> row[q].R]),
         D |-> Eval([q \in 1..Len(gs) |-> row[q].D]),
         H |-> Eval([q \in 1..Len(gs) |-> row[q].H])]

(* ------------------------------------------------------------------ *)
(* sim module: one generation of the recursion                         *)
(* ------------------------------------------------------------------ *)
\* S / (S + I + R); an emptied group (S = I = R = 0) contributes zero
frac_susceptible(s, i, r) ==
    LET n == RAdd(RAdd(s, i), r)
    IN  IF n = Zero THEN Zero ELSE RDiv(s, n)

\* variant: the product is taken as A I[t], rows for columns
Force_Transposed(Irow, A, q) ==
    RSum(Eval([p \in 1..Len(Irow) |-> RMul(Irow[p], A[q][p])]))

\* (I[t] A)[q]: infections in group q caused by all groups
Force(Irow, A, q) == RSum(Eval([p \in 1..Len(Irow) |-> RMul(Irow[p], A[p][q])]))

\* variant: the count is not clamped to S[t]
NewInfections_NoClamp(row, A, o, q) ==
    RMul(RAdd(Force(row.I, A, q), o[q]),
         frac_susceptible(row.S[q], row.I[q], row.R[q]))

\* variant: the count is clamped to the group total S[t] + I[t] + R[t]
NewInfections_ClampTotal(row, A, o, q) ==
    RMin(RMul(RAdd(Force(row.I, A, q), o[q]),
              frac_susceptible(row.S[q], row.I[q], row.R[q])),
         RAdd(RAdd(row.S[q], row.I[q]), row.R[q]))

\* I[t+1] = min((I[t] A + o) * (S[t] / (S[t] + I[t] + R[t])), S[t])
NewInfections(row, A, o, q) ==
    RMin(RMul(RAdd(Force(row.I, A, q), o[q]),
              frac_susceptible(row.S[q], row.I[q], row.R[q])),
         row.S[q])

\* a row of the recursion with the given S, R, D and H rules; In is I[t+1]
RowWith(row, In, sOf(_), rOf(_), dOf(_), hOf(_)) ==
    [S |-> Eval([q \in 1..Len(row.S) |-> sOf(q)]),
     I |-> In,
     R |-> Eval([q \in 1..Len(row.S) |-> rOf(q)]),
     D |-> Eval([q \in 1..Len(row.S) |-> dOf(q)]),
     H |-> Eval([q \in 1..Len(row.S) |-> hOf(q)])]

\* variant: S[t+1] = S[t] - I[t], the old infected
StepRow_OldI(row, A, o, a, r) ==
    LET In == Eval([q \in 1..Len(row.S) |-> NewInfections(row, A, o, q)])
        sOf(q) == RSub(row.S[q], row.I[q])
        rOf(q) == RAdd(row.R[q], row.I[q])
        dOf(q) == RAdd(RAdd(row.D[q], RMul(a[q], In[q])), RMul(r[q], row.H[q]))
        hOf(q) == RAdd(RMul(RSub(One, a[q]), In[q]), RMul(RSub(One, r[q]), row.H[q]))
    IN  RowWith(row, In, sOf, rOf, dOf, hOf)

\* variant: D[t+1] uses the new H[t+1] instead of the old H[t]
StepRow_NewH(row, A, o, a, r) ==
    LET In == Eval([q \in 1..Len(row.S) |-> NewInfections(row, A, o, q)])
        sOf(q) == RSub(row.S[q], In[q])
        rOf(q) == RAdd(row.R[q], row.I[q])
        hOf(q) == RAdd(RMul(RSub(One, a[q]), In[q]), RMul(RSub(One, r[q]), row.H[q]))
        dOf(q) == RAdd(RAdd(row.D[q], RMul(a[q], In[q])), RMul(r[q], hOf(q)))
    IN  RowWith(row, In, sOf, rOf, dOf, hOf)

\* variant: H[t+1] keeps all of H[t], the discovered part included
StepRow_HKeep(row, A, o, a, r) ==
    LET In == Eval([q \in 1..Len(row.S) |-> NewInfections(row, A, o, q)])
        sOf(q) == RSub(row.S[q], In[q])
        rOf(q) == RAdd(row.R[q], row.I[q])
        dOf(q) == RAdd(RAdd(row.D[q], RMul(a[q], In[q])), RMul(r[q], row.H[q]))
        hOf(q) == RAdd(RMul(RSub(One, a[q]), In[q]), row.H[q])
    IN  RowWith(row, In, sOf, rOf, dOf, hOf)

\* variant: every new infection is discovered, whatever a is
StepRow_DAll(row, A, o, a, r) ==
    LET In == Eval([q \in 1..Len(row.S) |-> NewInfections(row, A, o, q)])
        sOf(q) == RSub(row.S[q], In[q])
        rOf(q) == RAdd(row.R[q], row.I[q])
        dOf(q) == RAdd(RAdd(row.D[q], In[q]), RMul(r[q], row.H[q]))
        hOf(q) == RMul(RSub(One, r[q]), row.H[q])
    IN  RowWith(row, In, sOf, rOf, dOf, hOf)

\* variant: an infected individual stays infected instead of recovering
StepRow_Stay(row, A, o, a, r) ==
    LET In == Eval([q \in 1..Len(row.S) |->
                     RAdd(row.I[q], NewInfections(row, A, o, q))])
        sOf(q) == RSub(row.S[q], NewInfections(row, A, o, q))
        rOf(q) == row.R[q]
        dOf(q) == RAdd(RAdd(row.D[q], RMul(a[q], NewInfections(row, A, o, q))),
                       RMul(r[q], row.H[q]))
        hOf(q) == RAdd(RMul(RSub(One, a[q]), NewInfections(row, A, o, q)),
                       RMul(RSub(One, r[q]), row.H[q]))
    IN  RowWith(row, In, sOf, rOf, dOf, hOf)

\* row t+1 from row t
StepRow(row, A, o, a, r) ==
    LET K  == Len(row.S)
        In == Eval([q \in 1..K |-> NewInfections(row, A, o, q)])
    IN  [S |-> Eval([q \in 1..K |-> RSub(row.S[q], In[q])]),
         I |-> In,
         R |-> Eval([q \in 1..K |-> RAdd(row.R[q], row.I[q])]),
         D |-> Eval([q \in 1..K |->
                  RAdd(RAdd(row.D[q], RMul(a[q], In[q])), RMul(r[q], row.H[q]))]),
         H |-> Eval([q \in 1..K |->
                  RAdd(RMul(RSub(One, a[q]), In[q]),
                       RMul(RSub(One, r[q]), row.H[q]))])]

\* the interaction matrix scaled by a period's transmission multiplier
ScaleMatrix(A, mult) ==
    Eval([p \in 1..Len(A) |-> Eval([q \in 1..Len(A[p]) |-> RMul(mult, A[p][q])])])

(* ------------------------------------------------------------------ *)
(* trajectory module: isolation occupancy                              *)
(* ------------------------------------------------------------------ *)
\* probability that an isolation lasts at least n generations
Survival(iso, n) ==
    RSum(Eval([i \in 1..Len(iso.iso_lengths) |->
            IF iso.iso_lengths[i] >= n THEN iso.iso_props[i] ELSE Zero]))

\* variant: nobody in D at generation 0 counts as discovered then
NewlyDiscovered_NoArrival(Dt, u) ==
    IF u = 0 THEN Zero ELSE RSub(RSum(Dt[u]), RSum(Dt[u - 1]))

\* variant: the cumulative count is taken for the increment
NewlyDiscovered_Cumulative(Dt, u) == RSum(Dt[u])

\* newly discovered in generation u, all groups; everyone discovered at
\* generation 0 counts as discovered in generation 0
NewlyDiscovered(Dt, u) ==
    IF u = 0 THEN RSum(Dt[0]) ELSE RSub(RSum(Dt[u]), RSum(Dt[u - 1]))

\* occupancy at generation n: survival-weighted sum of discovery increments
Isolated(Dt, iso, n) ==
    RSum(Eval([k \in 1..(n + 1) |->
            RMul(NewlyDiscovered(Dt, k - 1), Survival(iso, n - (k - 1)))]))

RECURSIVE get_isolated(_, _, _)
get_isolated(Dt, iso, T) ==
    IF T = 0 THEN 0 :> Isolated(Dt, iso, 0)
    ELSE get_isolated(Dt, iso, T - 1) @@ (T :> Isolated(Dt, iso, T))

(* ------------------------------------------------------------------ *)
(* Inputs that are drawn                                               *)
(* ------------------------------------------------------------------ *)
Explicit(n, cu, pf) ==
    [kind |-> "explicit", pop |-> n, contact_units |-> cu, pop_fracs |-> pf]

Pareto(n, shape, ub) == [kind |-> "pareto", pop |-> n, shape |-> shape, ub |-> ub]

\* contact-level / fraction vector pairs: three well-formed, one with vectors
\* of different length, one whose fractions do not sum to 1
ContactSpecs ==
    { <<<<1>>, <<One>>>>, <<<<0>>, <<One>>>>, <<<<1, 2>>, <<Half, Half>>>>,
      <<<<1, 2>>, <<One>>>>, <<<<1, 2>>, <<Half, Rat(1, 4)>>>> }

MetaGroupDescs ==
    { Explicit(n, c[1], c[2]) : n \in {2, 4}, c \in ContactSpecs }
    \cup { Pareto(n, sh, ub) : n \in {2, 4}, sh \in 1..MaxShape, ub \in 1..MaxUb }

\* contact matrices of dimension 1 and 2, and a non-square one
ContactMatrices ==
    { <<<<Zero>>>>, <<<<One>>>>,
      <<<<Zero, Zero>>, <<Half, Half>>>>,
      <<<<One, Half>>, <<Half, One>>>>,
      <<<<One, Half>>, <<Half>>>> }

PopulationDescs ==
    { [meta_groups |-> ms, meta_group_contact_matrix |-> mx] :
        ms \in { <<m>> : m \in MetaGroupDescs }
               \cup { <<m1, m2>> : m1 \in MetaGroupDescs, m2 \in MetaGroupDescs },
        mx \in ContactMatrices }

\* populations that are simulated: one or two meta-groups
OneMeta(mx) ==
    [meta_groups |-> << Explicit(4, <<1>>, <<One>>) >>,
     meta_group_contact_matrix |-> mx]

TwoMeta(mx) ==
    [meta_groups |-> << Explicit(4, <<1>>, <<One>>),
                        Explicit(4, <<1, 2>>, <<Half, Half>>) >>,
     meta_group_contact_matrix |-> mx]

TwoMetaMatrices ==
    { <<<<Zero, Zero>>, <<Half, Half>>>>,
      <<<<Half, Half>>, <<Zero, Zero>>>>,
      <<<<One, Half>>, <<Half, One>>>> }

SimPopulations ==
    { OneMeta(<<<<One>>>>), OneMeta(<<<<One, Half>>, <<Half, One>>>>) }
    \cup { TwoMeta(mx) : mx \in TwoMetaMatrices }

\* the first n entries of a two-entry vector
Cut(v, n) == SubSeq(v, 1, n)

OutsideRates == { <<Zero, Zero>>, <<One, Zero>>, <<Int2Rat(8), Int2Rat(8)>> }
InitInfections == { <<0, 0>>, <<2, 0>>, <<0, 2>> }
InitRecovered == { <<0, 0>>, <<2, 2>> }
NoSurveillanceRates == { <<Zero, Zero>>, <<Zero, Half>> }
PctRecoveredDiscovered == { <<Zero, Half>> }

TestingRegimes ==
    { [test_type |-> <<"antigen", "pcr">>, tests_per_week |-> <<0, 2>>],
      [test_type |-> <<"antigen", "antigen">>, tests_per_week |-> <<2, 0>>] }

ArrivalTestingRegimes ==
    { [pre_departure_test_type |-> <<"none", "none">>,
       arrival_test_type |-> <<"none", "none">>],
      [pre_departure_test_type |-> <<"antigen", "pcr">>,
       arrival_test_type |-> <<"antigen", "pcr">>] }

IsolationRegimes ==
    { [iso_lengths |-> <<2, 1>>, iso_props |-> <<Half, Half>>],
      [iso_lengths |-> <<1>>, iso_props |-> <<One>>] }

\* one period of length n, or a period of length 1 followed by one of length
\* n - 1 with another testing regime and multiplier
PeriodsOf(n) ==
    { [period_lengths |-> <<n>>, testing_regimes |-> <<tr>>,
       transmission_multipliers |-> <<One>>] : tr \in TestingRegimes }
    \cup
    { [period_lengths |-> <<1, n - 1>>, testing_regimes |-> <<tr[1], tr[2]>>,
       transmission_multipliers |-> <<One, Half>>] :
         tr \in { x \in TestingRegimes \X TestingRegimes : x[1] # x[2] } }

\* runs with interaction or outside infection last two generations
Periods == PeriodsOf(2)

\* runs without new infections last one generation more than the longest period
LongPeriods == PeriodsOf(MaxPeriodLen + 1)

\* a population whose groups do not interact
QuietPopulation == TwoMeta(<<<<Zero, Zero>>, <<Zero, Zero>>>>)

\* populations with groups of unequal share and with a group of size 0: a
\* meta-group of population 0, or a contact level with fraction 0
SparsePopulations ==
    { [meta_groups |-> << Explicit(4, <<1, 2>>, <<Rat(3, 4), Rat(1, 4)>>),
                          Explicit(0, <<1>>, <<One>>) >>,
       meta_group_contact_matrix |-> <<<<One, Half>>, <<Half, One>>>>],
      [meta_groups |-> << Explicit(4, <<1, 2>>, <<One, Zero>>),
                          Explicit(4, <<1, 2>>, <<Rat(3, 4), Rat(1, 4)>>) >>,
       meta_group_contact_matrix |-> <<<<One, Half>>, <<Half, One>>>>] }

CutRegime(tr, n) ==
    [test_type |-> Cut(tr.test_type, n), tests_per_week |-> Cut(tr.tests_per_week, n)]

CutArrival(ar, n) ==
    [pre_departure_test_type |-> Cut(ar.pre_departure_test_type, n),
     arrival_test_type |-> Cut(ar.arrival_test_type, n)]

Scenario(p, o, inf, rec, ns, prd) ==
    LET n == Len(p.meta_groups)
    IN  [population |-> p,
         infections_per_contact_unit |-> Cut(<<One, Int2Rat(2)>>, n),
         outside_rate |-> Cut(o, n),
         init_infections |-> Cut(inf, n),
         init_recovered |-> Cut(rec, n),
         no_surveillance_test_rate |-> Cut(ns, n),
         pct_recovered_discovered |-> Cut(prd, n)]

Strategy(n, per, iso, arr) ==
    [period_lengths |-> per.period_lengths,
     testing_regimes |->
        Eval([i \in 1..Len(per.testing_regimes) |-> CutRegime(per.testing_regimes[i], n)]),
     transmission_multipliers |-> per.transmission_multipliers,
     isolation_regime |-> iso,
     arrival_testing_regime |-> CutArrival(arr, n)]

\* the single-group scenario: 100 susceptible, 1 infected, no interaction, no
\* outside infection, no testing
SingleGroupScenario ==
    Scenario([meta_groups |-> << Explicit(101, <<1>>, <<One>>) >>,
              meta_group_contact_matrix |-> <<<<Zero>>>>],
             <<Zero>>, <<1>>, <<0>>, <<Zero>>, <<Zero>>)

SingleGroupStrategies ==
    { [period_lengths |-> <<MaxPeriodLen + 1>>,
       testing_regimes |-> << [test_type |-> <<"pcr">>, tests_per_week |-> <<0>>] >>,
       transmission_multipliers |-> <<One>>,
       isolation_regime |-> iso,
       arrival_testing_regime |->
          [pre_departure_test_type |-> <<"none">>, arrival_test_type |-> <<"none">>]] :
      iso \in IsolationRegimes }

(* ------------------------------------------------------------------ *)
(* State                                                               *)
(* ------------------------------------------------------------------ *)
VARIABLES
    pc,         \* "new", "failed", "built", "running", "done", "reported"
    scenario,   \* the scenario parameters, Population description included
    strategy,   \* the strategy that is simulated
    groups,     \* Population: the flattened group list
    A,          \* Population: interaction matrix
    o,          \* Population: outside-infection vector
    t,          \* Sim: the current generation
    S, I, R, D, H,  \* Sim: rows 0..t, one value per group
    isolated,   \* Trajectory.get_isolated: occupancy per generation
    alt,        \* second run: the meta-group whose initial counts differ
    run2        \* second run: its rows 0..t

vars == <<pc, scenario, strategy, groups, A, o, t, S, I, R, D, H, isolated, alt, run2>>

simvars == <<t, S, I, R, D, H>>

NoAlt == [meta |-> 0, init_infections |-> 0, init_recovered |-> 0]

\* horizon: the sum of the period lengths
RECURSIVE SumLen(_)
SumLen(ls) == IF ls = <<>> THEN 0 ELSE Head(ls) + SumLen(Tail(ls))

\* variant: only the first period is simulated
Horizon_FirstPeriod == Head(strategy.period_lengths)

Horizon == SumLen(strategy.period_lengths)

\* the period that produces generation n+1 from generation n
RECURSIVE PeriodAt(_, _, _)
PeriodAt(ls, n, i) ==
    IF i >= Len(ls) \/ n < ls[i] THEN i ELSE PeriodAt(ls, n - ls[i], i + 1)

PeriodOf(n) == PeriodAt(strategy.period_lengths, n, 1)

\* variant: the first step of a new period starts again from row 0
RowAt_Reset(n) ==
    LET m == IF n >= 1 /\ PeriodOf(n) # PeriodOf(n - 1) THEN 0 ELSE n
    IN  [S |-> S[m], I |-> I[m], R |-> R[m], D |-> D[m], H |-> H[m]]

RowAt(n) == [S |-> S[n], I |-> I[n], R |-> R[n], D |-> D[n], H |-> H[n]]

\* parameters in force in period i
PeriodA(i) == ScaleMatrix(A, strategy.transmission_multipliers[i])
PeriodSmalla(i) ==
    infection_discovery_frac(groups, strategy.testing_regimes[i],
                             scenario.no_surveillance_test_rate)
PeriodSmallr(i) == recovered_discovery_frac(groups, strategy.testing_regimes[i])

\* variant: writing row n also overwrites row n-1
Extend_Overwrite(f, n, v) ==
    IF n = 0 THEN 0 :> v ELSE [f EXCEPT ![n - 1] = v] @@ (n :> v)

Extend(f, n, v) == IF n = 0 THEN 0 :> v ELSE f @@ (n :> v)

\* the second run: the same scenario with other initial counts in meta-group
\* alt.meta; it is stepped with the same parameters as the first
ExtendRun(run, n, row) ==
    [S |-> Extend(run.S, n, row.S), I |-> Extend(run.I, n, row.I),
     R |-> Extend(run.R, n, row.R), D |-> Extend(run.D, n, row.D),
     H |-> Extend(run.H, n, row.H)]

NoRun == [S |-> <<>>, I |-> <<>>, R |-> <<>>, D |-> <<>>, H |-> <<>>]

Run2RowAt(n) ==
    [S |-> run2.S[n], I |-> run2.I[n], R |-> run2.R[n], D |-> run2.D[n],
     H |-> run2.H[n]]

AltInit ==
    get_init_SIR_and_DH(groups,
                        [scenario.init_infections EXCEPT ![alt.meta] = alt.init_infections],
                        [scenario.init_recovered EXCEPT ![alt.meta] = alt.init_recovered],
                        strategy.arrival_testing_regime,
                        scenario.pct_recovered_discovered)

InitCommon ==
    /\ pc = "new"
    /\ groups = <<>> /\ A = <<>> /\ o = <<>>
    /\ t = 0
    /\ S = <<>> /\ I = <<>> /\ R = <<>> /\ D = <<>> /\ H = <<>>
    /\ isolated = <<>>

(* ------------------------------------------------------------------ *)
(* Operations                                                          *)
(* ------------------------------------------------------------------ *)
\* Population construction: a configuration error when the description is
\* invalid, otherwise the group list, interaction matrix and outside vector
Construct ==
    /\ pc = "new"
    /\ IF PopulationValid(scenario.population)
       THEN LET gs == FlattenGroups(scenario.population.meta_groups)
            IN  /\ pc' = "built"
                /\ groups' = gs
                /\ A' = infection_matrix(gs, scenario.population.meta_group_contact_matrix,
                                        scenario.infections_per_contact_unit)
                /\ o' = outside_rate_vector(gs, scenario.outside_rate)
       ELSE /\ pc' = "failed"
            /\ UNCHANGED <<groups, A, o>>
    /\ UNCHANGED <<scenario, strategy, simvars, isolated, alt, run2>>

\* Scenario.simulate_strategy, first part: row 0 from the arrival initializer
Initialize ==
    /\ pc = "built"
    /\ LET row == get_init_SIR_and_DH(groups, scenario.init_infections,
                                      scenario.init_recovered,
                                      strategy.arrival_testing_regime,
                                      scenario.pct_recovered_discovered)
       IN  /\ S' = Extend(S, 0, row.S)
           /\ I' = Extend(I, 0, row.I)
           /\ R' = Extend(R, 0, row.R)
           /\ D' = Extend(D, 0, row.D)
           /\ H' = Extend(H, 0, row.H)
    /\ run2' = IF alt = NoAlt THEN run2 ELSE ExtendRun(run2, 0, AltInit)
    /\ t' = 0
    /\ pc' = "running"
    /\ UNCHANGED <<scenario, strategy, groups, A, o, isolated, alt>>

\* variant: a group with S + I + R = 0 makes the step fail
Step_Raises ==
    /\ pc = "running"
    /\ t < Horizon
    /\ IF \E j \in 1..Len(groups) : RAdd(RAdd(S[t][j], I[t][j]), R[t][j]) = Zero
       THEN /\ pc' = "failed"
            /\ UNCHANGED <<simvars, run2>>
       ELSE /\ LET i   == PeriodOf(t)
                   row == StepRow(RowAt(t), PeriodA(i), o, PeriodSmalla(i), PeriodSmallr(i))
               IN  /\ S' = Extend(S, t + 1, row.S)
                   /\ I' = Extend(I, t + 1, row.I)
                   /\ R' = Extend(R, t + 1, row.R)
                   /\ D' = Extend(D, t + 1, row.D)
                   /\ H' = Extend(H, t + 1, row.H)
                   /\ run2' = IF alt = NoAlt THEN run2
                              ELSE ExtendRun(run2, t + 1,
                                             StepRow(Run2RowAt(t), PeriodA(i), o,
                                                     PeriodSmalla(i), PeriodSmallr(i)))
            /\ t' = t + 1
            /\ pc' = IF t + 1 = Horizon THEN "done" ELSE "running"
    /\ UNCHANGED <<scenario, strategy, groups, A, o, isolated, alt>>

\* Sim.step: one generation, with the parameters of the period in force
Step ==
    /\ pc = "running"
    /\ t < Horizon
    /\ LET i   == PeriodOf(t)
           row == StepRow(RowAt(t), PeriodA(i), o, PeriodSmalla(i), PeriodSmallr(i))
       IN  /\ S' = Extend(S, t + 1, row.S)
           /\ I' = Extend(I, t + 1, row.I)
           /\ R' = Extend(R, t + 1, row.R)
           /\ D' = Extend(D, t + 1, row.D)
           /\ H' = Extend(H, t + 1, row.H)
           /\ run2' = IF alt = NoAlt THEN run2
                      ELSE ExtendRun(run2, t + 1,
                                     StepRow(Run2RowAt(t), PeriodA(i), o,
                                             PeriodSmalla(i), PeriodSmallr(i)))
    /\ t' = t + 1
    /\ pc' = IF t + 1 = Horizon THEN "done" ELSE "running"
    /\ UNCHANGED <<scenario, strategy, groups, A, o, isolated, alt>>

\* Trajectory.get_isolated on the completed run
GetIsolated ==
    /\ pc = "done"
    /\ isolated' = get_isolated(D, strategy.isolation_regime, Horizon)
    /\ pc' = "reported"
    /\ UNCHANGED <<scenario, strategy, groups, A, o, simvars, alt, run2>>

Init ==
    /\ InitCommon
    /\ alt = NoAlt /\ run2 = NoRun
    /\ \/ \E p \in SimPopulations, ou \in OutsideRates, inf \in InitInfections,
             rec \in InitRecovered, ns \in NoSurveillanceRates,
             prd \in PctRecoveredDiscovered, per \in Periods,
             iso \in IsolationRegimes, arr \in ArrivalTestingRegimes :
            /\ scenario = Scenario(p, ou, inf, rec, ns, prd)
            /\ strategy = Strategy(Len(p.meta_groups), per, iso, arr)
       \/ \E rec \in InitRecovered, ns \in NoSurveillanceRates,
             prd \in PctRecoveredDiscovered, per \in LongPeriods,
             iso \in IsolationRegimes, arr \in ArrivalTestingRegimes :
            /\ scenario = Scenario(QuietPopulation, <<Zero, Zero>>, <<2, 2>>, rec, ns, prd)
            /\ strategy = Strategy(2, per, iso, arr)
       \/ /\ scenario = SingleGroupScenario
          /\ strategy \in SingleGroupStrategies
       \/ \E p \in SparsePopulations, ou \in OutsideRates, rec \in {<<0, 0>>, <<1, 0>>},
             ns \in NoSurveillanceRates, per \in Periods,
             iso \in IsolationRegimes, arr \in ArrivalTestingRegimes :
            /\ scenario = Scenario(p, ou, <<2, 0>>, rec, ns, <<Zero, Half>>)
            /\ strategy = Strategy(2, per, iso, arr)

Next == Construct \/ Initialize \/ Step \/ GetIsolated

Spec == Init /\ [][Next]_vars

\* one period without testing, arrival testing or transmission change
UntestedStrategy(n) ==
    Strategy(n,
             [period_lengths |-> <<1>>,
              testing_regimes |->
                 << [test_type |-> <<"pcr", "pcr">>, tests_per_week |-> <<0, 0>>] >>,
              transmission_multipliers |-> <<One>>],
             [iso_lengths |-> <<1>>, iso_props |-> <<One>>],
             [pre_departure_test_type |-> <<"none", "none">>,
              arrival_test_type |-> <<"none", "none">>])

\* Population construction alone, over all drawn descriptions
InitPop ==
    /\ InitCommon
    /\ alt = NoAlt /\ run2 = NoRun
    /\ \E p \in PopulationDescs :
         /\ scenario = Scenario(p, <<One, Zero>>, <<0, 0>>, <<0, 0>>, <<Zero, Zero>>,
                                <<Zero, Half>>)
         /\ strategy = UntestedStrategy(Len(p.meta_groups))

NextPop == Construct

SpecPop == InitPop /\ [][NextPop]_vars

\* Two runs of one scenario that differ in the initial counts of one
\* meta-group
AltCounts == { <<0, 0>>, <<2, 0>>, <<2, 2>>, <<4, 0>> }

InitTwin ==
    /\ InitCommon
    /\ run2 = NoRun
    /\ \E mx \in TwoMetaMatrices, ou \in OutsideRates, inf \in InitInfections,
          per \in Periods, arr \in ArrivalTestingRegimes,
          m \in 1..2, c \in AltCounts :
         /\ scenario = Scenario(TwoMeta(mx), ou, inf, <<0, 0>>, <<Zero, Half>>,
                                <<Zero, Half>>)
         /\ strategy = Strategy(2, per, [iso_lengths |-> <<1>>, iso_props |-> <<One>>],
                                arr)
         /\ Len(per.period_lengths) = 2
         /\ <<inf[m], 0>> # c
         /\ alt = [meta |-> m, init_infections |-> c[1], init_recovered |-> c[2]]

SpecTwin == InitTwin /\ [][Next]_vars

(* ------------------------------------------------------------------ *)
(* Properties of a simulation run                                      *)
(* ------------------------------------------------------------------ *)
Started == pc \in {"running", "done", "reported"}

\* the generations written so far
Gens == IF Started THEN 0..t ELSE {}

\* the generations that have a successor row
Stepped == IF Started THEN 0..(t - 1) ELSE {}

Groups == 1..Len(groups)

RECURSIVE SumI(_, _)
\* I[1][j] + ... + I[n][j]
SumI(n, j) == IF n = 0 THEN Zero ELSE RAdd(SumI(n - 1, j), I[n][j])

\* C1: in every generation and every group S + I + R equals the group's
\* fixed size, which is the value S[0] + I[0] + R[0] of the initializer.
Conservation ==
    \A n \in Gens : \A j \in Groups :
        /\ RAdd(RAdd(S[n][j], I[n][j]), R[n][j]) = RAdd(RAdd(S[0][j], I[0][j]), R[0][j])
        /\ RAdd(RAdd(S[n][j], I[n][j]), R[n][j]) = groups[j].size

\* two generations stepped, with new infections that moved people out of S
ConservationWitness ==
    /\ Started /\ t = 2
    /\ \E j \in Groups :
        /\ RLt(Zero, I[2][j]) /\ RLt(Zero, I[1][j])
        /\ RLt(S[2][j], S[1][j]) /\ RLt(R[0][j], R[2][j])

\* C2: the newly infected of generation n+1 never exceed the susceptible of
\* generation n, in any group, whatever A and o are.
Saturation ==
    \A n \in Stepped : \A j \in Groups : RLe(I[n + 1][j], S[n][j])

\* a step in which the clamp was active: the unclamped count exceeds S[n]
SaturationWitness ==
    \E n \in Stepped : \E j \in Groups :
        /\ RLt(Zero, S[n][j])
        /\ I[n + 1][j] = S[n][j]
        /\ RLt(S[n][j],
               RMul(RAdd(Force(I[n], PeriodA(PeriodOf(n)), j), o[j]),
                    RDiv(S[n][j], groups[j].size)))

\* C3: row n+1 is the documented recursion applied to row n: I[n+1] is the
\* clamped aggregate count, S and D use the new I[n+1], R uses the old I[n],
\* D and H use the old H[n].
Recursion ==
    \A n \in Stepped : \A j \in Groups :
        LET i   == PeriodOf(n)
            tot == RAdd(RAdd(S[n][j], I[n][j]), R[n][j])
            raw == RMul(RAdd(RSum(Eval([p \in Groups |->
                                   RMul(I[n][p],
                                        RMul(strategy.transmission_multipliers[i],
                                             A[p][j]))])),
                             o[j]),
                        IF tot = Zero THEN Zero ELSE RDiv(S[n][j], tot))
            a   == PeriodSmalla(i)[j]
            r   == PeriodSmallr(i)[j]
        IN  /\ I[n + 1][j] = (IF RLe(raw, S[n][j]) THEN raw ELSE S[n][j])
            /\ S[n + 1][j] = RSub(S[n][j], I[n + 1][j])
            /\ R[n + 1][j] = RAdd(R[n][j], I[n][j])
            /\ D[n + 1][j] = RAdd(D[n][j], RAdd(RMul(a, I[n + 1][j]), RMul(r, H[n][j])))
            /\ H[n + 1][j] = RAdd(RMul(RSub(One, a), I[n + 1][j]),
                                  RMul(RSub(One, r), H[n][j]))

\* a step where old and new I differ, H is non-zero and a, r are proper
\* fractions, so that every old/new choice of the recursion shows
RecursionWitness ==
    \E n \in Stepped : \E j \in Groups :
        /\ I[n + 1][j] # I[n][j] /\ RLt(Zero, I[n + 1][j]) /\ RLt(Zero, I[n][j])
        /\ RLt(Zero, H[n][j]) /\ H[n + 1][j] # H[n][j]
        /\ RLt(Zero, PeriodSmalla(PeriodOf(n))[j])
        /\ RLt(PeriodSmalla(PeriodOf(n))[j], One)
        /\ RLt(Zero, PeriodSmallr(PeriodOf(n))[j])
        /\ RLt(PeriodSmallr(PeriodOf(n))[j], One)
        /\ \E p \in Groups : p # j /\ RLt(Zero, I[n][p]) /\ RLt(Zero, A[p][j])

\* C4: D + H equals D[0] + H[0] plus the newly infected of generations
\* 1..n: a step only moves individuals from hidden to discovered.
Partition ==
    \A n \in Gens : \A j \in Groups :
        RAdd(D[n][j], H[n][j]) = RAdd(RAdd(D[0][j], H[0][j]), SumI(n, j))

\* both D and H changed over two generations with new infections
PartitionWitness ==
    /\ Started /\ t = 2
    /\ \E j \in Groups :
        /\ RLt(Zero, I[1][j]) /\ RLt(Zero, I[2][j])
        /\ RLt(D[0][j], D[1][j]) /\ RLt(D[1][j], D[2][j])
        /\ RLt(Zero, H[0][j]) /\ RLt(Zero, H[2][j]) /\ H[2][j] # H[1][j]

\* the run of the single-group scenario: k = 1, A = [[0]], o = [0],
\* a = r = 0, S = 100, I = 1, R = 0 at generation 0
SingleGroupRun ==
    /\ Started
    /\ scenario = SingleGroupScenario
    /\ A = <<<<Zero>>>> /\ o = <<Zero>>
    /\ PeriodSmalla(1) = <<Zero>> /\ PeriodSmallr(1) = <<Zero>>
    /\ S[0] = <<Int2Rat(100)>> /\ I[0] = <<One>> /\ R[0] = <<Zero>>

\* C5 as claimed: I stays 1 in every generation, S decreases by 1 exactly
\* once (at the first step) and then stays, D stays 0.
SingleGroupAsClaimed ==
    SingleGroupRun =>
        \A n \in Gens :
            /\ I[n] = <<One>>
            /\ D[n] = <<Zero>>
            /\ n >= 1 => S[n] = <<Int2Rat(99)>>

\* C5 amended: I is 1 at generation 0 and 0 afterwards (the infected
\* recover and A = 0, o = 0 produce no new infection), S stays 100 in every
\* generation, R is 1 from generation 1 on, D stays 0.
SingleGroupAmended ==
    SingleGroupRun =>
        \A n \in Gens :
            /\ I[n] = (IF n = 0 THEN <<One>> ELSE <<Zero>>)
            /\ S[n] = <<Int2Rat(100)>>
            /\ R[n] = (IF n = 0 THEN <<Zero>> ELSE <<One>>)
            /\ D[n] = <<Zero>>

SingleGroupWitness == SingleGroupRun /\ pc = "done" /\ t >= 3

\* the periods whose parameters produced generations 1..n
PeriodsBefore(n) == { PeriodOf(u) : u \in 0..(n - 1) }

\* meta-group m is not tested in period i and has no no-surveillance rate
Untested(i, m) ==
    /\ strategy.testing_regimes[i].tests_per_week[m] = 0
    /\ scenario.no_surveillance_test_rate[m] = Zero

\* C7: a meta-group with tests_per_week = 0 and no-surveillance rate 0 has
\* a = 0 in all its groups; if r = 0 as well, D of its groups stays what it
\* was at generation 0 (0 when it started at 0), whatever I and R are.
NoTestingNoDiscovery ==
    Started =>
        \A j \in Groups :
            /\ \A i \in 1..Len(strategy.period_lengths) :
                  Untested(i, groups[j].meta) => PeriodSmalla(i)[j] = Zero
            /\ \A n \in Gens :
                  (\A i \in PeriodsBefore(n) :
                      Untested(i, groups[j].meta) /\ PeriodSmallr(i)[j] = Zero)
                  => /\ D[n][j] = D[0][j]
                     /\ D[0][j] = Zero => D[n][j] = Zero

\* an untested group with D = 0 after two generations in which it had
\* infected and recovered members
NoTestingWitness ==
    /\ Started /\ t = 2
    /\ \E j \in Groups :
        /\ \A i \in PeriodsBefore(2) :
              Untested(i, groups[j].meta) /\ PeriodSmallr(i)[j] = Zero
        /\ D[0][j] = Zero /\ D[2][j] = Zero
        /\ RLt(Zero, I[1][j]) /\ RLt(Zero, I[2][j]) /\ RLt(Zero, R[2][j])

RECURSIVE MaxOf(_)
MaxOf(ls) ==
    IF Len(ls) = 1 THEN ls[1]
    ELSE IF Head(ls) >= MaxOf(Tail(ls)) THEN Head(ls) ELSE MaxOf(Tail(ls))

MaxIsolation == MaxOf(strategy.isolation_regime.iso_lengths)

\* the discovery increment of generation u over all groups, D[u] - D[u-1],
\* with all of D[0] counted at generation 0
Increment(u) == IF u = 0 THEN RSum(D[0]) ELSE RSub(RSum(D[u]), RSum(D[u - 1]))

\* no discovery in the generations lo..n
NoDiscoveries(lo, n) == \A u \in lo..n : u >= 0 => Increment(u) = Zero

\* C8: the occupancy is never negative, and it is 0 in every generation
\* that ends a stretch of more than the maximum isolation duration without
\* discovery.
IsolationDrains ==
    pc = "reported" =>
        \A n \in 0..Horizon :
            /\ RLe(Zero, isolated[n])
            /\ NoDiscoveries(n - MaxIsolation, n) => isolated[n] = Zero

\* a discovery, then MaxIsolation + 1 generations without one: the occupancy
\* is positive up to the last of them and 0 there
IsolationWitness ==
    /\ pc = "reported"
    /\ \E n \in 1..Horizon :
        /\ n - MaxIsolation >= 1
        /\ RLt(Zero, Increment(n - MaxIsolation - 1))
        /\ NoDiscoveries(n - MaxIsolation, n)
        /\ RLt(Zero, isolated[n - 1])
        /\ isolated[n] = Zero

(* ------------------------------------------------------------------ *)
(* Properties of two runs                                              *)
(* ------------------------------------------------------------------ *)
ContactMatrix == scenario.population.meta_group_contact_matrix

ZeroRow(m) == \A c \in 1..Len(ContactMatrix[m]) : ContactMatrix[m][c] = Zero

\* the two runs have the same infected counts in every group of meta-group m
SameInfected(m) ==
    \A n \in Gens : \A j \in Groups :
        groups[j].meta = m => run2.I[n][j] = I[n][j]

MetaDescs == scenario.population.meta_groups

\* the groups of meta-group m, as a sequence
GroupsOf(m) == SelectSeq(groups, LAMBDA g : g.meta = m)

Sizes(gs) == Eval([j \in 1..Len(gs) |-> gs[j].size])

Fracs(gs) == Eval([j \in 1..Len(gs) |-> gs[j].frac])

\* C9: the group sizes sum to the total population, the groups of each
\* meta-group sum to its population count, its fractions sum to 1 (explicit
\* or Pareto-derived) and there is one group per contact level.
PopulationSums ==
    /\ \A m \in 1..Len(MetaDescs) :
          MetaDescs[m].kind = "pareto" =>
              /\ RSum(MetaGroup_pop_fracs(MetaDescs[m])) = One
              /\ Len(MetaGroup_pop_fracs(MetaDescs[m])) = MetaDescs[m].ub
    /\ pc = "built" =>
          /\ RSum(Sizes(groups)) =
                Int2Rat(SumLen(Eval([m \in 1..Len(MetaDescs) |-> MetaDescs[m].pop])))
          /\ \A m \in 1..Len(MetaDescs) :
                /\ RSum(Sizes(GroupsOf(m))) = Int2Rat(MetaDescs[m].pop)
                /\ RSum(Fracs(GroupsOf(m))) = One
                /\ Len(GroupsOf(m)) = Len(MetaGroup_contact_units(MetaDescs[m]))

\* a built population of a Pareto meta-group with several contact levels and
\* an explicit one with two
PopulationSumsWitness ==
    /\ pc = "built" /\ Len(MetaDescs) = 2
    /\ MetaDescs[1].kind = "pareto" /\ MetaDescs[1].ub >= 2
    /\ MetaDescs[2].kind = "explicit" /\ Len(MetaDescs[2].pop_fracs) = 2
    /\ Len(groups) = MetaDescs[1].ub + 2

\* the three configuration errors of a Population description
DimensionMismatch ==
    \/ Len(ContactMatrix) # Len(MetaDescs)
    \/ \E i \in 1..Len(ContactMatrix) : Len(ContactMatrix[i]) # Len(MetaDescs)

LengthMismatch(m) ==
    m.kind = "explicit" /\ Len(m.contact_units) # Len(m.pop_fracs)

FractionsOff(m) == m.kind = "explicit" /\ RSum(m.pop_fracs) # One

Misconfigured ==
    \/ DimensionMismatch
    \/ \E m \in 1..Len(MetaDescs) :
          LengthMismatch(MetaDescs[m]) \/ FractionsOff(MetaDescs[m])

\* C10: construction fails exactly on a dimension mismatch, a length
\* mismatch or fractions that do not sum to 1, at the construction step and
\* with no group list, interaction matrix or outside vector produced.
ConfigurationError ==
    /\ pc # "new" => (pc = "failed" <=> Misconfigured)
    /\ pc = "failed" =>
          /\ groups = <<>> /\ A = <<>> /\ o = <<>>
          /\ S = <<>> /\ I = <<>> /\ t = 0
    /\ pc = "built" => Len(groups) > 0 /\ Len(A) = Len(groups) /\ Len(o) = Len(groups)

\* a failed construction whose only error is fractions that sum to 3/4
ConfigurationErrorWitness ==
    /\ pc = "failed" /\ ~DimensionMismatch
    /\ \E m \in 1..Len(MetaDescs) : FractionsOff(MetaDescs[m])
    /\ \A m \in 1..Len(MetaDescs) : ~LengthMismatch(MetaDescs[m])

(* ------------------------------------------------------------------ *)
(* Properties of strategy periods                                      *)
(* ------------------------------------------------------------------ *)
\* the generation in which period i starts: the lengths of periods 1..i-1
PeriodStart(i) == SumLen(SubSeq(strategy.period_lengths, 1, i - 1))

\* the stored row of generation n
Stored(n) == [S |-> S[n], I |-> I[n], R |-> R[n], D |-> D[n], H |-> H[n]]

\* the row that follows row under the parameters of period i
Following(row, i) ==
    StepRow(row, ScaleMatrix(A, strategy.transmission_multipliers[i]), o,
            infection_discovery_frac(groups, strategy.testing_regimes[i],
                                     scenario.no_surveillance_test_rate),
            recovered_discovery_frac(groups, strategy.testing_regimes[i]))

\* C11: at a period boundary the compartments are not reset: the first row
\* of period i is the recursion applied to the last row of period i-1 with
\* the multiplier and the a, r vectors of period i, and that last row was
\* itself produced with the parameters of period i-1.
Carryover ==
    Started =>
        \A i \in 2..Len(strategy.period_lengths) :
            LET n == PeriodStart(i)
            IN  /\ (n >= 1 /\ n <= t) => Stored(n) = Following(Stored(n - 1), i - 1)
                /\ (n >= 1 /\ n + 1 <= t) => Stored(n + 1) = Following(Stored(n), i)

\* a boundary crossed by a run whose state had moved away from row 0 and
\* whose two periods differ in multiplier and in discovery fractions
CarryoverWitness ==
    /\ Started /\ Len(strategy.period_lengths) = 2
    /\ PeriodStart(2) >= 1 /\ PeriodStart(2) + 1 <= t
    /\ Stored(PeriodStart(2)) # Stored(0)
    /\ Stored(PeriodStart(2) + 1) # Following(Stored(0), 2)
    /\ Stored(PeriodStart(2) + 1) # Following(Stored(PeriodStart(2)), 1)
    /\ strategy.transmission_multipliers[1] # strategy.transmission_multipliers[2]
    /\ PeriodSmalla(1) # PeriodSmalla(2)
    /\ \E j \in Groups : RLt(Zero, I[PeriodStart(2) + 1][j])

(* ------------------------------------------------------------------ *)
(* Properties of the arrival initializer                               *)
(* ------------------------------------------------------------------ *)
\* the sum of a row over the groups of meta-group m
SumOver(m, row) ==
    RSum(Eval([j \in Groups |-> IF groups[j].meta = m THEN row[j] ELSE Zero]))

\* the share of group j in the population of its meta-group
Share(j) ==
    LET n == MetaDescs[groups[j].meta].pop
    IN  IF n = 0 THEN Zero ELSE RDiv(groups[j].size, Int2Rat(n))

InitInf(m) == Int2Rat(scenario.init_infections[m])

InitRec(m) == Int2Rat(scenario.init_recovered[m])

\* the fraction of meta-group m's infected found by pre-departure and
\* arrival testing
ArrivalFound(m) ==
    pct_discovered(strategy.arrival_testing_regime.pre_departure_test_type[m],
                   strategy.arrival_testing_regime.arrival_test_type[m])

\* C13 as claimed: the initial infected of a meta-group's groups sum to its
\* init_infections and the initial recovered to its init_recovered, each
\* group holding its share, and S + I + R of a group is its size.
ArrivalSharesAsClaimed ==
    Started =>
        /\ \A m \in 1..Len(MetaDescs) :
              /\ SumOver(m, I[0]) = InitInf(m)
              /\ SumOver(m, R[0]) = InitRec(m)
        /\ \A j \in Groups :
              /\ I[0][j] = RMul(Share(j), InitInf(groups[j].meta))
              /\ R[0][j] = RMul(Share(j), InitRec(groups[j].meta))
              /\ RAdd(RAdd(S[0][j], I[0][j]), R[0][j]) = groups[j].size

\* C13 amended: those found by pre-departure or arrival testing start as
\* recovered, so the initial infected of a meta-group sum to the part of
\* init_infections that was not found and the initial recovered to
\* init_recovered plus the part that was found (together: init_infections +
\* init_recovered); each group holds its share of both, and S + I + R of a
\* group is its size.
ArrivalShares ==
    Started =>
        /\ \A m \in 1..Len(MetaDescs) :
              /\ SumOver(m, I[0]) = RMul(RSub(One, ArrivalFound(m)), InitInf(m))
              /\ SumOver(m, R[0]) = RAdd(InitRec(m), RMul(ArrivalFound(m), InitInf(m)))
              /\ RAdd(SumOver(m, I[0]), SumOver(m, R[0])) = RAdd(InitInf(m), InitRec(m))
        /\ \A j \in Groups :
              LET m == groups[j].meta
              IN  /\ I[0][j] = RMul(Share(j), RMul(RSub(One, ArrivalFound(m)), InitInf(m)))
                  /\ R[0][j] = RMul(Share(j), RAdd(InitRec(m),
                                                   RMul(ArrivalFound(m), InitInf(m))))
                  /\ RAdd(RAdd(S[0][j], I[0][j]), R[0][j]) = groups[j].size

\* a meta-group with two groups of unequal share, infected and recovered
\* arrivals, and arrival testing that finds some but not all infected
ArrivalSharesWitness ==
    /\ Started
    /\ \E j, k \in Groups :
          /\ groups[j].meta = groups[k].meta /\ RLt(Share(j), Share(k))
          /\ RLt(Zero, Share(j))
          /\ RLt(Zero, I[0][j]) /\ RLt(I[0][j], I[0][k])
          /\ RLt(Zero, InitRec(groups[j].meta))
          /\ RLt(Zero, ArrivalFound(groups[j].meta))
          /\ RLt(ArrivalFound(groups[j].meta), One)

(* ------------------------------------------------------------------ *)
(* Frame properties of a run                                           *)
(* ------------------------------------------------------------------ *)
\* C14: no operation changes a row that is already written: every step of
\* a run (a step into a new period and the isolation computation included)
\* leaves rows 0..t of S, I, R, D and H as they were.
RowsImmutable ==
    [][\A n \in Gens :
          /\ n \in DOMAIN S' /\ S'[n] = S[n]
          /\ n \in DOMAIN I' /\ I'[n] = I[n]
          /\ n \in DOMAIN R' /\ R'[n] = R[n]
          /\ n \in DOMAIN D' /\ D'[n] = D[n]
          /\ n \in DOMAIN H' /\ H'[n] = H[n]]_vars

\* a completed and reported run over two periods whose rows all differ
RowsImmutableWitness ==
    /\ pc = "reported" /\ t >= 2 /\ Len(strategy.period_lengths) = 2
    /\ \A n \in 1..t :
          /\ S[n] # S[n - 1] /\ I[n] # I[n - 1] /\ R[n] # R[n - 1]
          /\ D[n] # D[n - 1] /\ H[n] # H[n - 1]

(* ------------------------------------------------------------------ *)
(* Properties of the isolation estimate                                *)
(* ------------------------------------------------------------------ *)
\* probability that an isolation under the strategy's regime lasts at
\* least n generations
AtLeast(n) ==
    LET iso == strategy.isolation_regime
    IN  RSum(Eval([i \in 1..Len(iso.iso_lengths) |->
                IF n <= iso.iso_lengths[i] THEN iso.iso_props[i] ELSE Zero]))

RECURSIVE Convolution(_, _)
\* the sum over u = 0..k of Increment(u) * AtLeast(n - u)
Convolution(n, k) ==
    IF k < 0 THEN Zero
    ELSE RAdd(Convolution(n, k - 1), RMul(Increment(k), AtLeast(n - k)))

\* C15: the occupancy of generation n is the sum over u <= n of the
\* discovery increment D[u] - D[u-1] (all groups) times the probability
\* that the isolation lasts at least n - u generations, where all of D[0],
\* arrival discoveries included, is the increment of generation 0.
OccupancyIsConvolution ==
    pc = "reported" =>
        /\ DOMAIN isolated = 0..Horizon
        /\ \A n \in 0..Horizon : isolated[n] = Convolution(n, n)

\* a reported run with arrival discoveries in D[0], later discoveries, a
\* regime of two durations, and a generation whose occupancy holds a part
\* of the generation-0 cohort next to later cohorts
OccupancyWitness ==
    /\ pc = "reported" /\ Horizon >= 2
    /\ Len(strategy.isolation_regime.iso_lengths) = 2
    /\ RLt(Zero, Increment(0)) /\ RLt(Zero, Increment(1)) /\ RLt(Zero, Increment(2))
    /\ RLt(Zero, AtLeast(2)) /\ RLt(AtLeast(2), One)
    /\ RLt(RAdd(Increment(1), Increment(2)), isolated[2])
    /\ RLt(isolated[2], RSum(D[2]))

(* ------------------------------------------------------------------ *)
(* Numeric degeneracy                                                  *)
(* ------------------------------------------------------------------ *)
\* group j is emptied in generation n
Emptied(n, j) == S[n][j] = Zero /\ I[n][j] = Zero /\ R[n][j] = Zero

\* (I[n] A + o)[j] under the multiplier of the period in force
Pressure(n, j) ==
    RAdd(RSum(Eval([p \in Groups |->
                 RMul(I[n][p], RMul(strategy.transmission_multipliers[PeriodOf(n)],
                                    A[p][j]))])),
         o[j])

\* C16: an emptied group (S = I = R = 0) is no error: its new infections
\* are 0 and it stays emptied, every other group gets its usual clamped
\* count in the same step, and no run that has started is in the error
\* state or stops before its horizon.
EmptyGroupHandled ==
    /\ pc = "failed" => S = <<>>
    /\ pc = "running" => t < Horizon
    /\ \A n \in Stepped : \A j \in Groups :
          IF Emptied(n, j)
          THEN I[n + 1][j] = Zero /\ Emptied(n + 1, j)
          ELSE LET raw == RMul(Pressure(n, j),
                               RDiv(S[n][j], RAdd(RAdd(S[n][j], I[n][j]), R[n][j])))
               IN  I[n + 1][j] = (IF RLe(raw, S[n][j]) THEN raw ELSE S[n][j])

\* a completed run with an emptied group under positive infection pressure
\* in both steps, next to a group that got new infections in both
EmptyGroupWitness ==
    /\ pc = "done" /\ t = 2
    /\ \E j, k \in Groups :
          /\ \A n \in 0..1 : Emptied(n, j) /\ RLt(Zero, Pressure(n, j))
          /\ I[2][j] = Zero
          /\ ~Emptied(0, k) /\ RLt(Zero, I[1][k]) /\ RLt(Zero, I[2][k])

(* ------------------------------------------------------------------ *)
(* Termination of a run                                                *)
(* ------------------------------------------------------------------ *)
RECURSIVE TotalLength(_, _)
\* the horizon T: period_lengths[1] + ... + period_lengths[i]
TotalLength(ls, i) == IF i = 0 THEN 0 ELSE TotalLength(ls, i - 1) + ls[i]

MaxT == TotalLength(strategy.period_lengths, Len(strategy.period_lengths))

\* the five matrices hold exactly the rows 0..n, each with one entry per group
RowsUpTo(n) ==
    /\ DOMAIN S = 0..n /\ DOMAIN I = 0..n /\ DOMAIN R = 0..n
    /\ DOMAIN D = 0..n /\ DOMAIN H = 0..n
    /\ \A u \in 0..n :
          /\ Len(S[u]) = Len(groups) /\ Len(I[u]) = Len(groups)
          /\ Len(R[u]) = Len(groups) /\ Len(D[u]) = Len(groups)
          /\ Len(H[u]) = Len(groups)

\* the position of a run in its life cycle
Stage ==
    CASE pc = "new" -> 0
      [] pc = "built" -> 1
      [] pc = "running" -> 2
      [] pc = "done" -> 3
      [] OTHER -> 4

\* C17: a run with horizon T terminates after exactly T steps: a running
\* run has t < T and so can step; every step adds one to t and one complete
\* row to complete rows 0..t, and ends the run exactly when t reaches T;
\* every other operation moves the run forward in its life cycle; at the
\* end S, I, R, D, H hold exactly the rows 0..T, T the sum of the period
\* lengths.
RunTerminates ==
    /\ [](Started => (t <= MaxT /\ RowsUpTo(t)))
    /\ [](pc = "running" => t < MaxT)
    /\ [][IF pc = "running"
          THEN t' = t + 1 /\ pc' = (IF t' = MaxT THEN "done" ELSE "running")
          ELSE t' = t /\ Stage' > Stage]_vars
    /\ [](pc \in {"done", "reported"} => (t = MaxT /\ RowsUpTo(MaxT)))

\* the end of a run over two periods and at least three generations
RunTerminatesWitness ==
    /\ pc = "done" /\ t = MaxT /\ MaxT >= 3
    /\ Len(strategy.period_lengths) = 2 /\ Len(groups) >= 2
    /\ RowsUpTo(MaxT)

(* ------------------------------------------------------------------ *)
(* Sign and monotonicity of the compartments                           *)
(* ------------------------------------------------------------------ *)
InUnit(x) == RLe(Zero, x) /\ RLe(x, One)

\* row 0, A and o are non-negative and every period's a and r lie in [0,1]
ValidParameters ==
    /\ \A j \in Groups :
          /\ RLe(Zero, S[0][j]) /\ RLe(Zero, I[0][j]) /\ RLe(Zero, R[0][j])
          /\ RLe(Zero, D[0][j]) /\ RLe(Zero, H[0][j])
          /\ RLe(Zero, o[j])
          /\ \A p \in Groups : RLe(Zero, A[p][j])
    /\ \A i \in 1..Len(strategy.period_lengths) :
          /\ RLe(Zero, strategy.transmission_multipliers[i])
          /\ \A j \in Groups : InUnit(PeriodSmalla(i)[j]) /\ InUnit(PeriodSmallr(i)[j])

\* C18: from a non-negative row 0, with non-negative A and o and a, r in
\* [0,1], every entry of S, I, R, D, H is non-negative in every generation,
\* S never increases and R and D never decrease, in every group.
SignsAndMonotonicity ==
    (Started /\ ValidParameters) =>
        \A n \in Gens : \A j \in Groups :
            /\ RLe(Zero, S[n][j]) /\ RLe(Zero, I[n][j]) /\ RLe(Zero, R[n][j])
            /\ RLe(Zero, D[n][j]) /\ RLe(Zero, H[n][j])
            /\ n >= 1 => /\ RLe(S[n][j], S[n - 1][j])
                         /\ RLe(R[n - 1][j], R[n][j])
                         /\ RLe(D[n - 1][j], D[n][j])

\* two generations in which a group lost susceptibles and gained recovered
\* and discovered each time, one of them emptying S through the clamp
SignsWitness ==
    /\ Started /\ t = 2 /\ ValidParameters
    /\ \E j \in Groups :
          /\ RLt(S[1][j], S[0][j]) /\ RLt(S[2][j], S[1][j])
          /\ RLt(R[0][j], R[1][j]) /\ RLt(R[1][j], R[2][j])
          /\ RLt(D[0][j], D[1][j]) /\ RLt(D[1][j], D[2][j])
          /\ RLt(Zero, H[2][j])
    /\ \E j \in Groups : \E n \in 1..2 : S[n][j] = Zero /\ RLt(Zero, S[n - 1][j])

(* ------------------------------------------------------------------ *)
(* Discovered and hidden against infected and recovered                *)
(* ------------------------------------------------------------------ *)
\* group j's share of its meta-group's initial infected and recovered
InfOf(j) == RMul(Share(j), InitInf(groups[j].meta))

RecOf(j) == RMul(Share(j), InitRec(groups[j].meta))

\* the part of the initial recovered of group j's meta-group that was
\* discovered before arrival
KnownBefore(j) == scenario.pct_recovered_discovered[groups[j].meta]

\* C19: row 0 has in D everyone found by pre-departure or arrival testing
\* (with the recovered that were discovered before) and in H every infected
\* that was not found and every recovered that is still hidden, so that
\* D[0] + H[0] = I[0] + R[0]; the recursion keeps D + H = I + R in every
\* group and generation.
DiscoveredHiddenSplit ==
    Started =>
        \A j \in Groups :
            LET f      == ArrivalFound(groups[j].meta)
                hidden == RMul(RSub(One, KnownBefore(j)), RecOf(j))
            IN  /\ D[0][j] = RAdd(RAdd(RMul(f, InfOf(j)), RMul(KnownBefore(j), RecOf(j))),
                                  RMul(f, hidden))
                /\ H[0][j] = RAdd(RMul(RSub(One, f), InfOf(j)), RMul(RSub(One, f), hidden))
                /\ \A n \in Gens : RAdd(D[n][j], H[n][j]) = RAdd(I[n][j], R[n][j])

\* a group with found and unfound infected arrivals and hidden recovered,
\* stepped twice with new infections and discoveries
DiscoveredHiddenWitness ==
    /\ Started /\ t = 2
    /\ \E j \in Groups :
          /\ RLt(Zero, ArrivalFound(groups[j].meta))
          /\ RLt(ArrivalFound(groups[j].meta), One)
          /\ RLt(Zero, InfOf(j)) /\ RLt(Zero, RecOf(j)) /\ RLt(KnownBefore(j), One)
          /\ RLt(Zero, D[0][j]) /\ RLt(Zero, H[0][j]) /\ RLt(H[0][j], RAdd(I[0][j], R[0][j]))
          /\ RLt(Zero, I[1][j]) /\ RLt(Zero, I[2][j])
          /\ RLt(D[0][j], D[2][j]) /\ H[2][j] # H[0][j]

====
